---- MODULE Spec2Model ----
(***************************************************************************)
(* kanshi: the checkpointed stream-consumption loop (src/src/dna/mod.rs)   *)
(* and the process that runs it next to the event consumer                 *)
(* (src/src/main.rs).                                                      *)
(*                                                                         *)
(* One process start = Config::new, IndexerService::new, then two tasks:   *)
(* the indexer task (run_forever_simplified) and the consumer task         *)
(* (rx.recv loop), joined by an unbounded mpsc channel.  The checkpoint    *)
(* file indexer_state.json survives the process; everything else is lost   *)
(* when the process ends.                                                  *)
(***************************************************************************)
EXTENDS Integers, Sequences, FiniteSets, TLC

\* ------------------------------------------------------------- bounds
MaxHeight == 2      \* the provider serves blocks 0..MaxHeight
MaxBlocks == 2      \* blocks the provider streams to one process
MaxEvents == 2      \* event slots carried by one block
MaxBatch == 2       \* blocks carried by one Data message
MaxDefault == 1     \* configured starting blocks are 0..MaxDefault

VARIABLES
    file,                   \* indexer_state.json: [exists, text]
    proc,                   \* "running" | "exited" | "crashed"
    config_starting_block,  \* config.starting_block, until the stream is started
    config_write_path,      \* config.write_path, until then
    starting_block,         \* service.stream_config.starting_block, until then
    ipc,                    \* indexer task: "new" | "connect" | "pull" | "batch" | "block" | "done" | "panicked"
    ret,                    \* what run_forever_simplified returned: [kind, why, msg]
    next_height,            \* provider: height of the next block it streams
    batch_left,             \* blocks of the current Data message the for loop has not reached
    block,                  \* the block the for loop is at
    evi,                    \* index of the next event slot of block
    queue,                  \* the unbounded channel
    tx_alive,               \* the sender (owned by the indexer task) is not dropped
    rx_alive,               \* the receiver (owned by the consumer task) is not dropped
    cpc,                    \* consumer task: "recv" | "done" | "panicked"
    received,               \* history: events process_event was called with, this process
    arrived,                \* history: events of the blocks the loop has reached, this process
    sent,                   \* history: events tx.send accepted, this process
    begun,                  \* history: number of blocks the loop has reached, this process
    saves,                  \* history: number of save_block_state calls, this process
    last_save,              \* history: the last save_block_state call: [h, header, n, ok]
    stranded,               \* history: events arrived and never processed when the process ended
    sent_before,            \* history: events queued by the process that ended
    storage,                \* object store: the table of each manager's backend
    op,                     \* object store: the last call, [name, key, val]
    returned                \* object store: what each manager returned for it

indexer_vars == << file, proc, config_starting_block, config_write_path,
           starting_block, ipc,
           ret, next_height, batch_left, block, evi,
           queue, tx_alive, rx_alive, cpc, received, arrived, sent, begun,
           saves, last_save, stranded, sent_before >>

store_vars == << storage, op, returned >>

vars == << indexer_vars, store_vars >>

\* ------------------------------------------------- the checkpoint file
\* IndexerService::get_state_file_path: where the checkpoint file is
get_state_file_path == "indexer_state.json"

\* values of WRITE_PATH: unset (the default), or another location
WritePaths == {"indexer_state.json", "state/other.json"}

\* The file either does not exist or holds a text; the text is modelled
\* as the token sequence of the JSON object, << >> being the empty text a
\* write that failed after truncation leaves.
AbsentFile == [exists |-> FALSE, text |-> << >>]

\* serde_json::to_string(&BlockState { last_processed_block })
to_string(last_processed_block) == << "last_processed_block", last_processed_block >>

\* serde_json::from_str::<BlockState>: [ok, val]
from_str(text) ==
    IF Len(text) = 2 /\ text[1] = "last_processed_block"
    THEN [ok |-> TRUE, val |-> text[2]]
    ELSE [ok |-> FALSE, val |-> 0]

\* fs::write(path, text) = File::create (truncates) then write_all.
\* outcome "ok": both succeed; "create_failed": nothing is touched;
\* "write_failed": the file exists and is empty.
FsWriteOutcomes == {"ok", "create_failed", "write_failed"}

\* deviation: a write that appends to what the file holds
fs_write_append(f, text, outcome) ==
    CASE outcome = "ok" -> [exists |-> TRUE, text |-> f.text \o text]
      [] outcome = "create_failed" -> f
      [] outcome = "write_failed" -> [exists |-> TRUE, text |-> << >>]

fs_write(f, text, outcome) ==
    CASE outcome = "ok" -> [exists |-> TRUE, text |-> text]
      [] outcome = "create_failed" -> f
      [] outcome = "write_failed" -> [exists |-> TRUE, text |-> << >>]

\* IndexerService::save_block_state: [ok, file]
save_block_state(f, block_number, outcome) ==
    [ok |-> (outcome = "ok"),
     file |-> fs_write(f, to_string(block_number), outcome)]

\* deviation: a missing file is an error
load_block_state_strict(f) ==
    LET state == from_str(f.text)
    IN  IF f.exists /\ state.ok
        THEN [ok |-> TRUE, some |-> TRUE, val |-> state.val]
        ELSE [ok |-> FALSE, some |-> FALSE, val |-> 0]

\* IndexerService::load_block_state: Result<Option<u64>> as [ok, some, val]
load_block_state(f) ==
    IF ~f.exists
    THEN [ok |-> TRUE, some |-> FALSE, val |-> 0]
    ELSE LET state == from_str(f.text)
         IN  IF state.ok
             THEN [ok |-> TRUE, some |-> TRUE, val |-> state.val]
             ELSE [ok |-> FALSE, some |-> FALSE, val |-> 0]

\* deviation: resume one block after the loaded checkpoint
NewStartingBlock_next(config_start, loaded) ==
    IF loaded.ok /\ loaded.some THEN loaded.val + 1 ELSE config_start

\* deviation: resume from the greater of the loaded checkpoint and the default
NewStartingBlock_max(config_start, loaded) ==
    IF loaded.ok /\ loaded.some /\ loaded.val >= config_start
    THEN loaded.val
    ELSE config_start

\* deviation: a checkpoint that fails to load makes the stream start at 0
NewStartingBlock_zero(config_start, loaded) ==
    IF ~loaded.ok THEN 0
    ELSE IF loaded.some THEN loaded.val ELSE config_start

\* IndexerService::new: the starting block of the stream_config it returns
NewStartingBlock(config_start, loaded) ==
    IF loaded.ok /\ loaded.some THEN loaded.val ELSE config_start

\* ------------------------------------------------------------- blocks
\* A block: its height on chain, whether the message carries its header,
\* and for each event slot whether event.event is Some.
EventSeqs == UNION { [1..n -> BOOLEAN] : n \in 0..MaxEvents }

NoBlock == [h |-> 0, header |-> FALSE, events |-> << >>]

\* deviation: the number after the header's
BlockNumber_next(b) == IF b.header THEN b.h + 1 ELSE 0

\* deviation: a block without header is numbered by its place in the stream
BlockNumber_place(b) == b.h

\* block.header.as_ref().map(|hdr| hdr.block_number).unwrap_or(0)
BlockNumber(b) == IF b.header THEN b.h ELSE 0

\* the number of the first i event slots of a block whose event.event is Some
PresentUpTo(b, i) == Cardinality({ j \in 1..i : b.events[j] })

\* the events of a block whose event.event is Some, in order; an event is
\* named by the height of its block and its rank among these
PresentEvents(b) ==
    [k \in 1..PresentUpTo(b, Len(b.events)) |-> << b.h, k >>]

SeqRange(s) == { s[i] : i \in 1..Len(s) }

IsPrefix(s, t) == Len(s) <= Len(t) /\ SubSeq(t, 1, Len(s)) = s

\* ------------------------------------------------------------ channel
\* deviation: a channel that pushes at the front
tx_send_front(q, alive, event) ==
    IF alive THEN [ok |-> TRUE, queue |-> << event >> \o q]
    ELSE [ok |-> FALSE, queue |-> q]

\* UnboundedSender::send: Err when the receiver is gone, else FIFO push
tx_send(q, alive, event) ==
    IF alive THEN [ok |-> TRUE, queue |-> Append(q, event)]
    ELSE [ok |-> FALSE, queue |-> q]

\* UnboundedReceiver::recv on a non-empty channel: [event, queue]
rx_recv(q) == [event |-> Head(q), queue |-> Tail(q)]

NoRet == [kind |-> "none", why |-> "", msg |-> << >>]

NoSave == [h |-> 0, header |-> FALSE, n |-> 0, ok |-> FALSE]

\* ------------------------------------------------ the typed object store
\* services/dataStore.rs and services/redis.rs.  Texts are sequences of
\* tokens: one token per character of a string, per number literal, per
\* escape.  Connection failures are left out: every command reaches its
\* server.
Keys == {"k1", "k2"}

\* the T of store::<T> and retrieve::<T>
Types == {"u64", "f64", "String"}

\* Rust values: [t: the type, v: the value].  The u64 1; the f64 1.5,
\* 1e21 and infinity; the strings "a" and the one made of the character
\* U+0000.
Values ==
    { [t |-> "u64", v |-> << "1" >>],
      [t |-> "f64", v |-> << "1.5" >>],
      [t |-> "f64", v |-> << "1e21" >>],
      [t |-> "f64", v |-> << "inf" >>],
      [t |-> "String", v |-> << "a" >>],
      [t |-> "String", v |-> << "NUL" >>] }

Unit == [t |-> "()", v |-> << >>]
None == [t |-> "None", v |-> << >>]
Bool(b) == [t |-> "bool", v |-> IF b THEN << "true" >> ELSE << "false" >>]
StoreOk(val) == [kind |-> "Ok", val |-> val]
StoreErr(what) == [kind |-> "Err", val |-> [t |-> "Error", v |-> << what >>]]

\* serde_json::Value: [j: the variant, x: its content]
Null == [j |-> "Null", x |-> << >>]

\* serde_json::to_value::<T>: a float that is not finite becomes Null
to_value(val) ==
    CASE val.t = "u64" -> [j |-> "PosInt", x |-> val.v]
      [] val.t = "f64" -> IF val.v = << "inf" >> THEN Null
                          ELSE [j |-> "Float", x |-> val.v]
      [] val.t = "String" -> [j |-> "String", x |-> val.v]

\* serde_json::from_value::<T>: [ok, val]
from_value(T, value) ==
    CASE T = "u64" /\ value.j = "PosInt" ->
             [ok |-> TRUE, val |-> [t |-> "u64", v |-> value.x]]
      [] T = "f64" /\ value.j = "Float" ->
             [ok |-> TRUE, val |-> [t |-> "f64", v |-> value.x]]
      [] T = "f64" /\ value.j = "PosInt" ->
             [ok |-> TRUE, val |-> [t |-> "f64", v |-> value.x \o << ".0" >>]]
      [] T = "String" /\ value.j = "String" ->
             [ok |-> TRUE, val |-> [t |-> "String", v |-> value.x]]
      [] OTHER -> [ok |-> FALSE, val |-> None]

Quote == "\""

\* one character of a string, as JSON text writes it, and back
escape(c) == IF c = "NUL" THEN "\\u0000" ELSE c
unescape(tok) == IF tok = "\\u0000" THEN "NUL" ELSE tok

\* impl Display for Value (value.to_string()): the compact JSON text
Value_to_string(value) ==
    CASE value.j = "Null" -> << "null" >>
      [] value.j \in {"PosInt", "Float"} -> value.x
      [] value.j = "String" ->
             << Quote >> \o [i \in 1..Len(value.x) |-> escape(value.x[i])]
                 \o << Quote >>

\* the number literals that occur, and the Number serde_json reads from
\* each: an integer literal too large for u64 is read as a float
NumberLiterals == {"1", "1.5", "1e21", "1000000000000000000000"}

parse_number(tok) ==
    CASE tok = "1" -> [j |-> "PosInt", x |-> << "1" >>]
      [] tok = "1.5" -> [j |-> "Float", x |-> << "1.5" >>]
      [] tok \in {"1e21", "1000000000000000000000"} ->
             [j |-> "Float", x |-> << "1e21" >>]

IsStringText(text) ==
    /\ Len(text) >= 2
    /\ text[1] = Quote
    /\ text[Len(text)] = Quote

\* serde_json::from_str::<Value>: [ok, value]
Value_from_str(text) ==
    CASE text = << "null" >> -> [ok |-> TRUE, value |-> Null]
      [] Len(text) = 1 /\ text[1] \in NumberLiterals ->
             [ok |-> TRUE, value |-> parse_number(text[1])]
      [] IsStringText(text) ->
             [ok |-> TRUE,
              value |-> [j |-> "String",
                         x |-> [i \in 1..(Len(text) - 2) |->
                                   unescape(text[i + 1])]]]
      [] OTHER -> [ok |-> FALSE, value |-> Null]

\* A row of a backend: [has, j, x].  The key-value server keeps the text
\* it was given (j = "text"); the relational server keeps a jsonb datum
\* (j = "null" | "numeric" | "string").
NoRow == [has |-> FALSE, j |-> "", x |-> << >>]

\* SET key value, GET key, DEL key of the key-value server
redis_set(table, key, text) ==
    [table EXCEPT ![key] = [has |-> TRUE, j |-> "text", x |-> text]]

redis_get(table, key) ==
    IF table[key].has THEN [some |-> TRUE, text |-> table[key].x]
    ELSE [some |-> FALSE, text |-> << >>]

redis_del(table, key) ==
    [result |-> IF table[key].has THEN 1 ELSE 0,
     table |-> [table EXCEPT ![key] = NoRow]]

\* RedisClient::delete, with DEL's reply compared the other way (variant)
RedisClient_delete_always(table, key) ==
    LET reply == redis_del(table, key)
    IN  [r |-> StoreOk(Bool(reply.result >= 0)), table |-> reply.table]

\* RedisClient::delete: result > 0
RedisClient_delete(table, key) ==
    LET reply == redis_del(table, key)
    IN  [r |-> StoreOk(Bool(reply.result > 0)), table |-> reply.table]

\* impl DataStorage for RedisStorage
RedisStorage_store_json(table, key, value) ==
    [r |-> StoreOk(Unit),
     table |-> redis_set(table, key, Value_to_string(value))]

RedisStorage_retrieve_json(table, key) ==
    LET got == redis_get(table, key)
        parsed == Value_from_str(got.text)
    IN  IF ~got.some THEN [ok |-> TRUE, some |-> FALSE, value |-> Null]
        ELSE [ok |-> parsed.ok, some |-> parsed.ok, value |-> parsed.value]

RedisStorage_delete(table, key) == RedisClient_delete(table, key)

\* the numeric a number literal denotes, as the relational server prints it
numeric(tok) ==
    CASE tok = "1" -> "1"
      [] tok = "1.5" -> "1.5"
      [] tok \in {"1e21", "1000000000000000000000"} ->
             "1000000000000000000000"

\* $2::jsonb: the cast of a text to jsonb, [ok, j, x]; jsonb has no
\* string that holds U+0000 and the cast of \u0000 is an error
jsonb_in(text) ==
    CASE text = << "null" >> -> [ok |-> TRUE, j |-> "null", x |-> << >>]
      [] Len(text) = 1 /\ text[1] \in NumberLiterals ->
             [ok |-> TRUE, j |-> "numeric", x |-> << numeric(text[1]) >>]
      [] IsStringText(text)
           /\ \A i \in 2..(Len(text) - 1) : text[i] /= "\\u0000" ->
             [ok |-> TRUE, j |-> "string",
              x |-> [i \in 1..(Len(text) - 2) |-> unescape(text[i + 1])]]
      [] OTHER -> [ok |-> FALSE, j |-> "", x |-> << >>]

\* value::text: a jsonb datum printed
jsonb_out(row) ==
    CASE row.j = "null" -> << "null" >>
      [] row.j = "numeric" -> row.x
      [] row.j = "string" ->
             << Quote >> \o [i \in 1..Len(row.x) |-> escape(row.x[i])]
                 \o << Quote >>

\* impl DataStorage for PostgresStorage
\* INSERT .. VALUES ($1, $2::jsonb) ON CONFLICT (key) DO UPDATE SET value = $2::jsonb
PostgresStorage_store_json(table, key, value) ==
    LET json_str == Value_to_string(value)
        datum == jsonb_in(json_str)
    IN  IF datum.ok
        THEN [r |-> StoreOk(Unit),
              table |-> [table EXCEPT ![key] =
                            [has |-> TRUE, j |-> datum.j, x |-> datum.x]]]
        ELSE [r |-> StoreErr("execute"), table |-> table]

\* SELECT value::text FROM key_value_store WHERE key = $1
PostgresStorage_retrieve_json(table, key) ==
    LET parsed == Value_from_str(jsonb_out(table[key]))
    IN  IF ~table[key].has THEN [ok |-> TRUE, some |-> FALSE, value |-> Null]
        ELSE [ok |-> parsed.ok, some |-> parsed.ok, value |-> parsed.value]

\* DELETE FROM key_value_store WHERE key = $1: result > 0
PostgresStorage_delete(table, key) ==
    LET result == IF table[key].has THEN 1 ELSE 0
    IN  [r |-> StoreOk(Bool(result > 0)),
         table |-> [table EXCEPT ![key] = NoRow]]

\* str::starts_with
starts_with(s, prefix) ==
    /\ Len(s) >= Len(prefix)
    /\ SubSeq(s, 1, Len(prefix)) = prefix

\* config.storage_url of the two stores that are compared
StorageUrl ==
    [relational |-> << "p", "o", "s", "t", "g", "r", "e", "s", "q", "l",
                       ":", "/", "/", "d", "b" >>,
     inmemory |-> << "r", "e", "d", "i", "s", ":", "/", "/", "k", "v" >>]

Managers == DOMAIN StorageUrl

\* StorageManager::new: the backend the connection string selects
StorageManager_new(storage_url) ==
    IF starts_with(storage_url, << "p", "o", "s", "t", "g", "r", "e", "s" >>)
    THEN "PostgresStorage"
    ELSE "RedisStorage"

\* impl TypedStorage for StorageManager, and StorageManager::delete, of
\* the manager m over its table: [r: what the caller gets, table]
StorageManager_store(m, table, key, val) ==
    LET json_value == to_value(val)
    IN  IF StorageManager_new(StorageUrl[m]) = "PostgresStorage"
        THEN PostgresStorage_store_json(table, key, json_value)
        ELSE RedisStorage_store_json(table, key, json_value)

StorageManager_retrieve(m, table, key, T) ==
    LET got == IF StorageManager_new(StorageUrl[m]) = "PostgresStorage"
               THEN PostgresStorage_retrieve_json(table, key)
               ELSE RedisStorage_retrieve_json(table, key)
        typed == from_value(T, got.value)
    IN  IF ~got.ok THEN StoreErr("from_str")
        ELSE IF ~got.some THEN StoreOk(None)
        ELSE IF typed.ok THEN StoreOk(typed.val)
        ELSE StoreErr("from_value")

StorageManager_delete(m, table, key) ==
    IF StorageManager_new(StorageUrl[m]) = "PostgresStorage"
    THEN PostgresStorage_delete(table, key)
    ELSE RedisStorage_delete(table, key)

NoOp == [name |-> "none", key |-> "", val |-> Unit]

\* -------------------------------------------------------------- Init
Init ==
    /\ file = AbsentFile
    /\ proc = "running"
    /\ config_starting_block = 0
    /\ config_write_path = "indexer_state.json"
    /\ starting_block = 0
    /\ ipc = "new"
    /\ ret = NoRet
    /\ next_height = 0
    /\ batch_left = 0
    /\ block = NoBlock
    /\ evi = 1
    /\ queue = << >>
    /\ tx_alive = TRUE
    /\ rx_alive = TRUE
    /\ cpc = "recv"
    /\ received = << >>
    /\ arrived = << >>
    /\ sent = << >>
    /\ begun = 0
    /\ saves = 0
    /\ last_save = NoSave
    /\ stranded = {}
    /\ sent_before = {}
    /\ storage = [m \in Managers |-> [key \in Keys |-> NoRow]]
    /\ op = NoOp
    /\ returned = [m \in Managers |-> StoreOk(Unit)]

\* ------------------------------------------------- the indexer task
Ok(why) == [kind |-> "Ok", why |-> why, msg |-> << >>]
Err(why, msg) == [kind |-> "Err", why |-> why, msg |-> msg]

\* the task's future completes: its locals and the sender it owns are dropped
Return(r) ==
    /\ ipc' = "done"
    /\ ret' = r
    /\ tx_alive' = FALSE
    /\ batch_left' = 0
    /\ block' = NoBlock
    /\ evi' = 1

\* Config::new, then IndexerService::new (awaited first thing in the task)
New(default, write_path) ==
    /\ proc = "running"
    /\ UNCHANGED store_vars
    /\ ipc = "new"
    /\ config_starting_block' = default
    /\ config_write_path' = write_path
    /\ starting_block' = NewStartingBlock(default, load_block_state(file))
    /\ ipc' = "connect"
    /\ UNCHANGED << file, proc, ret, next_height, batch_left, block,
                    evi, queue, tx_alive, rx_alive, cpc, received, arrived,
                    sent, begun, saves, last_save, stranded, sent_before >>

\* config_client.send, connect, start_stream all succeed.  Whether the
\* provider reads the starting cursor as the first block to stream
\* (offset 0) or as the last block already seen (offset 1) is its choice.
\* The configuration has been handed to the provider and is read by
\* nothing afterwards: the two variables that hold it are cleared.
StartStream(offset) ==
    /\ proc = "running"
    /\ UNCHANGED store_vars
    /\ ipc = "connect"
    /\ next_height' = starting_block + offset
    /\ config_starting_block' = 0
    /\ config_write_path' = "indexer_state.json"
    /\ starting_block' = 0
    /\ ipc' = "pull"
    /\ UNCHANGED << file, proc, ret, batch_left, block, evi, queue,
                    tx_alive, rx_alive, cpc, received, arrived, sent, begun,
                    saves, last_save, stranded, sent_before >>

\* config_client.send(..).await? fails: the error is returned
SendConfigFails ==
    /\ proc = "running"
    /\ UNCHANGED store_vars
    /\ ipc = "connect"
    /\ Return(Err("setup", << "config_client.send" >>))
    /\ UNCHANGED << file, proc, config_starting_block, config_write_path,
                    starting_block, next_height, queue, rx_alive, cpc,
                    received, arrived, sent, begun, saves, last_save, stranded,
                    sent_before >>

\* connect(..).await.unwrap() or start_stream(..).await.unwrap() panics
ConnectPanics ==
    /\ proc = "running"
    /\ UNCHANGED store_vars
    /\ ipc = "connect"
    /\ ipc' = "panicked"
    /\ tx_alive' = FALSE
    /\ UNCHANGED << file, proc, config_starting_block, config_write_path,
                    starting_block, ret, next_height, batch_left, block, evi,
                    queue, rx_alive, cpc, received, arrived, sent, begun,
                    saves, last_save, stranded, sent_before >>

\* try_next() = Ok(Some(Data { finality, batch })), batch of n blocks.
\* (finality only feeds the reached_pending_block latch, which is printed
\* once and read by nothing else; neither is modelled.)
PullData(n) ==
    /\ proc = "running"
    /\ UNCHANGED store_vars
    /\ ipc = "pull"
    /\ next_height + n - 1 <= MaxHeight
    /\ begun + n <= MaxBlocks
    /\ batch_left' = n
    /\ ipc' = IF n = 0 THEN "pull" ELSE "batch"
    /\ UNCHANGED << file, proc, config_starting_block, config_write_path,
                    starting_block, ret, next_height, block, evi, queue,
                    tx_alive, rx_alive, cpc, received, arrived, sent, begun,
                    saves, last_save, stranded, sent_before >>

\* for block in batch: the loop reaches the next block of the batch.  The
\* provider streams consecutive heights; what the block carries is drawn
\* here, where it is first read.
BeginBlock(header, events) ==
    /\ proc = "running"
    /\ UNCHANGED store_vars
    /\ ipc = "batch"
    /\ LET b == [h |-> next_height, header |-> header, events |-> events]
       IN  /\ block' = b
           /\ arrived' = arrived \o PresentEvents(b)
    /\ next_height' = next_height + 1
    /\ batch_left' = batch_left - 1
    /\ evi' = 1
    /\ begun' = begun + 1
    /\ ipc' = "block"
    /\ UNCHANGED << file, proc, config_starting_block, config_write_path,
                    starting_block, ret, queue, tx_alive, rx_alive, cpc,
                    received, sent, saves, last_save, stranded, sent_before >>

EventPending == ipc = "block" /\ evi <= Len(block.events)

\* for event in block.events: event.event is None
SkipEvent ==
    /\ proc = "running"
    /\ UNCHANGED store_vars
    /\ EventPending
    /\ ~block.events[evi]
    /\ evi' = evi + 1
    /\ UNCHANGED << file, proc, config_starting_block, config_write_path,
                    starting_block, ipc, ret, next_height, batch_left, block,
                    queue, tx_alive, rx_alive, cpc, received, arrived, sent,
                    begun, saves, last_save, stranded, sent_before >>

\* deviation: a failed send is returned as an error
AfterSend_err(sent_ok) ==
    IF sent_ok THEN [return |-> FALSE, ret |-> NoRet]
    ELSE [return |-> TRUE, ret |-> Err("receiver_dropped", << "send" >>)]

\* deviation: a failed send is ignored and the for loop goes on
AfterSend_ignore(sent_ok) == [return |-> FALSE, ret |-> NoRet]

\* what the loop does with the result of tx.send(event)
AfterSend(sent_ok) ==
    IF sent_ok THEN [return |-> FALSE, ret |-> NoRet]
    ELSE [return |-> TRUE, ret |-> Ok("receiver_dropped")]

\* for event in block.events: event.event is Some, tx.send(event)
SendEvent ==
    /\ proc = "running"
    /\ UNCHANGED store_vars
    /\ EventPending
    /\ block.events[evi]
    /\ LET event == << block.h, PresentUpTo(block, evi) >>
           pushed == tx_send(queue, rx_alive, event)
           after == AfterSend(pushed.ok)
       IN  /\ queue' = pushed.queue
           /\ sent' = IF pushed.ok THEN Append(sent, event) ELSE sent
           /\ IF after.return
              THEN Return(after.ret)
              ELSE /\ evi' = evi + 1
                   /\ UNCHANGED << ipc, ret, tx_alive, batch_left, block >>
    /\ UNCHANGED << file, proc, config_starting_block, config_write_path,
                    starting_block, next_height, rx_alive, cpc, received,
                    arrived, begun, saves, last_save, stranded, sent_before >>

\* deviation: a failed save is returned with ?
AfterSave_fatal(saved_ok) ==
    IF saved_ok THEN [return |-> FALSE, ret |-> NoRet]
    ELSE [return |-> TRUE, ret |-> Err("save", << "save_block_state" >>)]

\* what the loop does with the result of save_block_state: the error is
\* printed and the for loop goes on
AfterSave(saved_ok) == [return |-> FALSE, ret |-> NoRet]

\* the event slots of the block are done: save_block_state(block_number)
SaveBlock(outcome) ==
    /\ proc = "running"
    /\ UNCHANGED store_vars
    /\ ipc = "block"
    /\ evi > Len(block.events)
    /\ LET block_number == BlockNumber(block)
           saved == save_block_state(file, block_number, outcome)
           after == AfterSave(saved.ok)
       IN  /\ file' = saved.file
           /\ saves' = saves + 1
           /\ last_save' = [h |-> block.h, header |-> block.header,
                           n |-> block_number, ok |-> saved.ok]
           /\ IF after.return
              THEN Return(after.ret)
              ELSE /\ block' = NoBlock
                   /\ evi' = 1
                   /\ ipc' = IF batch_left = 0 THEN "pull" ELSE "batch"
                   /\ UNCHANGED << ret, tx_alive, batch_left >>
    /\ UNCHANGED << proc, config_starting_block, config_write_path, starting_block,
                    next_height, queue, rx_alive, cpc, received, arrived, sent,
                    begun, stranded, sent_before >>

\* try_next() = Ok(Some(Heartbeat)): a line is printed
PullHeartbeat ==
    /\ proc = "running"
    /\ UNCHANGED store_vars
    /\ ipc = "pull"
    /\ UNCHANGED vars

\* Option<Cursor> of an Invalidate: none, or the order_key of a block streamed
Cursors ==
    {[some |-> FALSE, order_key |-> 0]}
        \cup [some : {TRUE}, order_key : 0..(next_height - 1)]

\* deviation: an Invalidate ends the loop like the end of the stream
InvalidateError_ok(cursor) == Ok("invalidate")

\* Err(anyhow!(..)) of the Invalidate arm
InvalidateError(cursor) ==
    IF cursor.some
    THEN Err("invalidate", << "Received an invalidate request data at", cursor.order_key >>)
    ELSE Err("invalidate", << "Invalidate request without cursor provided" >>)

\* try_next() = Ok(Some(Invalidate { cursor }))
PullInvalidate(cursor) ==
    /\ proc = "running"
    /\ UNCHANGED store_vars
    /\ ipc = "pull"
    /\ Return(InvalidateError(cursor))
    /\ UNCHANGED << file, proc, config_starting_block, config_write_path,
                    starting_block, next_height, queue, rx_alive, cpc,
                    received, arrived, sent, begun, saves, last_save, stranded,
                    sent_before >>

\* try_next() = Ok(None)
PullEnd ==
    /\ proc = "running"
    /\ UNCHANGED store_vars
    /\ ipc = "pull"
    /\ Return(Ok("end"))
    /\ UNCHANGED << file, proc, config_starting_block, config_write_path,
                    starting_block, next_height, queue, rx_alive, cpc,
                    received, arrived, sent, begun, saves, last_save, stranded,
                    sent_before >>

\* try_next() = Err(e)
PullError ==
    /\ proc = "running"
    /\ UNCHANGED store_vars
    /\ ipc = "pull"
    /\ Return(Err("stream", << "Error while streaming" >>))
    /\ UNCHANGED << file, proc, config_starting_block, config_write_path,
                    starting_block, next_height, queue, rx_alive, cpc,
                    received, arrived, sent, begun, saves, last_save, stranded,
                    sent_before >>

\* ------------------------------------------------- the consumer task
\* rx.recv() = Some(event); process_event(event)
ConsumerRecv ==
    /\ proc = "running"
    /\ UNCHANGED store_vars
    /\ cpc = "recv"
    /\ queue /= << >>
    /\ LET got == rx_recv(queue)
       IN  /\ queue' = got.queue
           /\ received' = Append(received, got.event)
    /\ UNCHANGED << file, proc, config_starting_block, config_write_path,
                    starting_block, ipc, ret, next_height, batch_left, block,
                    evi, tx_alive, rx_alive, cpc, arrived, sent, begun, saves,
                    last_save, stranded, sent_before >>

\* rx.recv() = Some(event) and the body of the loop panics (println! on a
\* closed stdout, or the processing logic): the task ends, rx is dropped
\* with everything still buffered in the channel
ConsumerPanic ==
    /\ proc = "running"
    /\ UNCHANGED store_vars
    /\ cpc = "recv"
    /\ queue /= << >>
    /\ queue' = << >>
    /\ cpc' = "panicked"
    /\ rx_alive' = FALSE
    /\ UNCHANGED << file, proc, config_starting_block, config_write_path,
                    starting_block, ipc, ret, next_height, batch_left, block,
                    evi, tx_alive, received, arrived, sent, begun, saves,
                    last_save, stranded, sent_before >>

\* deviation: recv() gives None as soon as the channel is empty, whether
\* or not the sender is dropped
ConsumerEnd_empty ==
    /\ proc = "running"
    /\ UNCHANGED store_vars
    /\ cpc = "recv"
    /\ queue = << >>
    /\ cpc' = "done"
    /\ rx_alive' = FALSE
    /\ UNCHANGED << file, proc, config_starting_block, config_write_path,
                    starting_block, ipc, ret, next_height, batch_left, block,
                    evi, queue, tx_alive, received, arrived, sent, begun,
                    saves, last_save, stranded, sent_before >>

\* rx.recv() = None: the channel is empty and the sender is dropped
ConsumerEnd ==
    /\ proc = "running"
    /\ UNCHANGED store_vars
    /\ cpc = "recv"
    /\ queue = << >>
    /\ ~tx_alive
    /\ cpc' = "done"
    /\ rx_alive' = FALSE
    /\ UNCHANGED << file, proc, config_starting_block, config_write_path,
                    starting_block, ipc, ret, next_height, batch_left, block,
                    evi, queue, tx_alive, received, arrived, sent, begun,
                    saves, last_save, stranded, sent_before >>

\* ------------------------------------------------------- the process
\* deviation: only a consumer task that returned counts, not one that panicked
ConsumerCompleted_returned == cpc = "done"

IndexerCompleted == ipc \in {"done", "panicked"}
ConsumerCompleted == cpc \in {"done", "panicked"}

\* the process ends: its memory is gone (the channel with what it still
\* buffers, the locals and results of both tasks); only the file stays
ProcessEnds(how) ==
    /\ proc = "running"
    /\ UNCHANGED store_vars
    /\ proc' = how
    /\ stranded' = SeqRange(arrived) \ SeqRange(received)
    /\ sent_before' = SeqRange(sent)
    /\ config_starting_block' = 0
    /\ config_write_path' = "indexer_state.json"
    /\ starting_block' = 0
    /\ ipc' = "new"
    /\ ret' = NoRet
    /\ next_height' = 0
    /\ batch_left' = 0
    /\ block' = NoBlock
    /\ evi' = 1
    /\ queue' = << >>
    /\ tx_alive' = FALSE
    /\ rx_alive' = FALSE
    /\ cpc' = "recv"
    /\ received' = << >>
    /\ arrived' = << >>
    /\ sent' = << >>
    /\ begun' = 0
    /\ saves' = 0
    /\ last_save' = NoSave
    /\ UNCHANGED file

\* deviation: main waits for both handles
ProcessExit_join ==
    /\ IndexerCompleted /\ ConsumerCompleted
    /\ ProcessEnds("exited")

\* tokio::select! on the two handles: main returns when either completes
ProcessExit ==
    /\ IndexerCompleted \/ ConsumerCompleted
    /\ ProcessEnds("exited")

\* the process is killed at any point
Crash == ProcessEnds("crashed")

\* the process is started again: main creates the channel and both tasks
Restart ==
    /\ proc \in {"exited", "crashed"}
    /\ UNCHANGED store_vars
    /\ proc' = "running"
    /\ tx_alive' = TRUE
    /\ rx_alive' = TRUE
    /\ stranded' = {}
    /\ sent_before' = {}
    /\ UNCHANGED << file, config_starting_block, config_write_path, starting_block, ipc, ret,
                    next_height, batch_left, block, evi, queue, cpc,
                    received, arrived, sent, begun, saves, last_save >>

\* ------------------------------------------------ the typed object store
\* One call, made on both stores: store::<T>(key, &val)
Store(key, val) ==
    /\ op' = [name |-> "store", key |-> key, val |-> val]
    /\ storage' = [m \in Managers |->
                      StorageManager_store(m, storage[m], key, val).table]
    /\ returned' = [m \in Managers |->
                       StorageManager_store(m, storage[m], key, val).r]
    /\ UNCHANGED indexer_vars

\* retrieve::<T>(key)
Retrieve(key, T) ==
    /\ op' = [name |-> "retrieve", key |-> key, val |-> [t |-> T, v |-> << >>]]
    /\ returned' = [m \in Managers |->
                       StorageManager_retrieve(m, storage[m], key, T)]
    /\ UNCHANGED storage
    /\ UNCHANGED indexer_vars

\* delete(key)
Delete(key) ==
    /\ op' = [name |-> "delete", key |-> key, val |-> Unit]
    /\ storage' = [m \in Managers |->
                      StorageManager_delete(m, storage[m], key).table]
    /\ returned' = [m \in Managers |->
                       StorageManager_delete(m, storage[m], key).r]
    /\ UNCHANGED indexer_vars

Next ==
    \/ \E default \in 0..MaxDefault : \E write_path \in WritePaths :
             New(default, write_path)
    \/ \E offset \in {0, 1} : StartStream(offset)
    \/ SendConfigFails
    \/ ConnectPanics
    \/ \E n \in 0..MaxBatch : PullData(n)
    \/ \E header \in BOOLEAN : \E events \in EventSeqs : BeginBlock(header, events)
    \/ SkipEvent
    \/ SendEvent
    \/ \E outcome \in FsWriteOutcomes : SaveBlock(outcome)
    \/ PullHeartbeat
    \/ \E cursor \in Cursors : PullInvalidate(cursor)
    \/ PullEnd
    \/ PullError
    \/ ConsumerRecv
    \/ ConsumerPanic
    \/ ConsumerEnd
    \/ ProcessExit
    \/ Crash
    \/ Restart

Spec == Init /\ [][Next]_vars

\* the steps the loop takes by itself once a Data message is at hand
LoopStep ==
    \/ \E header \in BOOLEAN : \E events \in EventSeqs : BeginBlock(header, events)
    \/ SkipEvent
    \/ SendEvent
    \/ \E outcome \in FsWriteOutcomes : SaveBlock(outcome)

\* the steps the consumer task takes by itself
ConsumerStep == ConsumerRecv \/ ConsumerEnd

\* one process, from its start to its end
RunNext ==
    \/ \E default \in 0..MaxDefault : \E write_path \in WritePaths :
             New(default, write_path)
    \/ \E offset \in {0, 1} : StartStream(offset)
    \/ SendConfigFails
    \/ ConnectPanics
    \/ \E n \in 0..MaxBatch : PullData(n)
    \/ LoopStep
    \/ PullHeartbeat
    \/ \E cursor \in Cursors : PullInvalidate(cursor)
    \/ PullEnd
    \/ PullError
    \/ ConsumerStep
    \/ ConsumerPanic
    \/ ProcessExit
    \/ Crash

\* main is woken when one of the two handles completes and then returns.
\* Nothing is assumed of what the provider sends, of how far the two tasks
\* get, of panics or of kills.
FairSpec ==
    /\ Init
    /\ [][RunNext]_vars
    /\ WF_vars(ProcessExit)

\* The two stores, driven by the same calls from the empty state
StoreNext ==
    \/ \E key \in Keys : \E val \in Values : Store(key, val)
    \/ \E key \in Keys : \E T \in Types : Retrieve(key, T)
    \/ \E key \in Keys : Delete(key)

StoreSpec == Init /\ [][StoreNext]_vars

\* ------------------------------------------------------- properties
\* the file holds a checkpoint load_block_state can read back
HasCheckpoint(f) ==
    f.exists /\ Len(f.text) = 2 /\ f.text[1] = "last_processed_block"

StoredCheckpoint(f) == f.text[2]

Ended == proc \in {"exited", "crashed"}

\* IndexerService::new has returned and nothing has run since
Constructed == proc = "running" /\ ipc = "connect"

\* C1: at-least-once delivery across runs.  When a process has ended and
\* left a checkpoint B, every event that arrived in that process and was
\* never handed to process_event belongs to a block at or after B, so that
\* the next process, which resumes at B, can stream it again.
C1_AtLeastOnce ==
    (Ended /\ HasCheckpoint(file))
        => \A e \in stranded : e[1] >= StoredCheckpoint(file)

\* C2: FIFO.  At every moment the sequence of events the consumer has
\* received is a prefix of the events in stream arrival order.
C2_FifoPrefix == IsPrefix(received, arrived)

\* three events of two blocks have been received
C2_Witness ==
    /\ proc = "running"
    /\ Len(received) >= 3
    /\ received[1][1] /= received[Len(received)][1]

\* C3: the persisted checkpoint is monotonic.  No step replaces a
\* readable checkpoint by a smaller readable checkpoint.
C3_Monotonic ==
    [][(HasCheckpoint(file) /\ HasCheckpoint(file'))
          => StoredCheckpoint(file') >= StoredCheckpoint(file)]_vars

\* C4: the starting block IndexerService::new puts in the subscription
\* configuration is exactly the saved checkpoint B when one is saved,
\* whatever the configured default, and exactly the configured default
\* when no checkpoint file exists.
C4_ResumeExact ==
    Constructed =>
        /\ HasCheckpoint(file) => starting_block = StoredCheckpoint(file)
        /\ ~file.exists => starting_block = config_starting_block

\* a process started with checkpoint 1 and default 0 resumes at 1
C4_Witness ==
    /\ Constructed
    /\ HasCheckpoint(file)
    /\ StoredCheckpoint(file) = 1
    /\ config_starting_block = 0
    /\ starting_block = 1

\* C5 as stated: with a checkpoint the starting block is the greater of
\* the checkpoint and the configured default.
C5_MaxOfBoth ==
    (Constructed /\ HasCheckpoint(file))
        => starting_block =
              IF StoredCheckpoint(file) >= config_starting_block
              THEN StoredCheckpoint(file)
              ELSE config_starting_block

\* C5: the starting block is the loaded checkpoint whenever one is loaded,
\* also when the configured default is greater (the session then starts
\* below the default), and the configured default otherwise.
C5_CheckpointWins ==
    Constructed =>
        /\ starting_block =
              IF HasCheckpoint(file) THEN StoredCheckpoint(file)
              ELSE config_starting_block
        /\ (HasCheckpoint(file)
              /\ config_starting_block > StoredCheckpoint(file))
              => starting_block < config_starting_block

\* a process started with checkpoint 0 and default 1 resumes at 0
C5_Witness ==
    /\ Constructed
    /\ HasCheckpoint(file)
    /\ StoredCheckpoint(file) = 0
    /\ config_starting_block = 1
    /\ starting_block = 0

\* C6 as stated: once the loop has failed on an Invalidate that carries a
\* cursor, no checkpoint greater than the cursor position is stored.
C6_NothingPastInvalidation ==
    (proc = "running" /\ ret.why = "invalidate" /\ Len(ret.msg) = 2
        /\ HasCheckpoint(file))
        => StoredCheckpoint(file) <= ret.msg[2]

\* C6: an Invalidate ends the loop with an error that carries the cursor
\* position or says there is none; the step writes no checkpoint and none
\* is written afterwards, so the file keeps what the last processed block
\* left in it (nothing is rolled back).
C6_FailsWithoutRollback ==
    [][(proc = "running" /\ proc' = "running") =>
        /\ (ipc = "pull" /\ ret'.why = "invalidate") =>
              /\ ipc' = "done"
              /\ ret'.kind = "Err"
              /\ \/ ret'.msg = << "Invalidate request without cursor provided" >>
                 \/ \E k \in 0..(next_height - 1) :
                        ret'.msg = << "Received an invalidate request data at", k >>
              /\ file' = file
              /\ saves' = saves
        /\ ret.why = "invalidate" =>
              /\ file' = file
              /\ saves' = saves
              /\ ret' = ret
              /\ ipc' = "done"]_vars

\* the loop has failed on an Invalidate at a cursor below the checkpoint
\* that stays in the file
C6_Witness ==
    /\ proc = "running"
    /\ ipc = "done"
    /\ ret.kind = "Err"
    /\ ret.why = "invalidate"
    /\ Len(ret.msg) = 2
    /\ HasCheckpoint(file)
    /\ StoredCheckpoint(file) > ret.msg[2]

\* C7: with the receiver dropped, the first tx.send the loop attempts ends
\* it with Ok(()) and queues nothing; once the loop has returned, no event
\* is queued, no block is reached, no message is pulled and nothing is
\* saved in that process.
C7_DisconnectStops ==
    [][(proc = "running" /\ proc' = "running") =>
        /\ (~rx_alive /\ EventPending /\ block.events[evi]
              /\ << ipc, evi >>' /= << ipc, evi >>) =>
              /\ ipc' = "done"
              /\ ret' = [kind |-> "Ok", why |-> "receiver_dropped", msg |-> << >>]
              /\ queue' = queue
              /\ sent' = sent
        /\ ipc = "done" =>
              /\ ipc' = "done"
              /\ ret' = ret
              /\ sent' = sent
              /\ Len(queue') <= Len(queue)
              /\ begun' = begun
              /\ next_height' = next_height
              /\ saves' = saves]_vars

\* the consumer task has panicked and the loop has returned Ok(()) on the
\* send that followed
C7_Witness ==
    /\ proc = "running"
    /\ cpc = "panicked"
    /\ ipc = "done"
    /\ ret.kind = "Ok"
    /\ ret.why = "receiver_dropped"

\* C8: with a live consumer, blocks are handled one after the other:
\* every present event of a block is queued in order, then exactly one
\* save_block_state is called with the block's number (the header's
\* number, 0 without header), also for a block without events; a save
\* that succeeds leaves that number in the file.
C8_EnqueueThenCheckpoint ==
    (proc = "running" /\ rx_alive /\ ipc \in {"pull", "batch", "block"}) =>
        LET open == IF ipc = "block" THEN 1 ELSE 0
            todo == IF ipc = "block"
                    THEN Cardinality({ j \in evi..Len(block.events) : block.events[j] })
                    ELSE 0
        IN  /\ sent = SubSeq(arrived, 1, Len(arrived) - todo)
            /\ received \o queue = sent
            /\ saves = begun - open
            /\ saves > 0 =>
                  /\ last_save.h = next_height - 1 - open
                  /\ last_save.n = IF last_save.header THEN last_save.h ELSE 0
                  /\ last_save.ok =>
                        file = [exists |-> TRUE,
                                text |-> << "last_processed_block", last_save.n >>]

\* in a Data message of two blocks, the first block had two present
\* events: both are queued in order, its number is written and stored, and
\* the second block has not been reached yet
C8_Witness ==
    /\ proc = "running"
    /\ rx_alive
    /\ ipc = "batch"
    /\ batch_left = 1
    /\ begun = 1
    /\ saves = 1
    /\ Len(sent) = 2
    /\ sent = arrived
    /\ received \o queue = sent
    /\ last_save.ok
    /\ last_save.header
    /\ last_save.n = last_save.h
    /\ HasCheckpoint(file)
    /\ StoredCheckpoint(file) = last_save.n

\* C9: replay on restart is bounded to one block.  When a process has
\* ended and left a checkpoint B, the events it queued belong to at most
\* one block above B (the blocks above B are streamed again to the next
\* process, whichever way the provider reads the starting cursor).
C9_ReplayOneBlock ==
    (Ended /\ HasCheckpoint(file)) =>
        Cardinality({ h \in 0..MaxHeight :
                        /\ h > StoredCheckpoint(file)
                        /\ \E e \in sent_before : e[1] = h }) <= 1

\* C10 as stated: a save_block_state that returns an error leaves the
\* checkpoint file as it was.
C10_KeepsCheckpoint ==
    [][(proc = "running" /\ saves' = saves + 1 /\ ~last_save'.ok)
          => file' = file]_vars

\* C10: a save_block_state that returns an error does not end the loop:
\* the loop goes on to the next block of the batch, or to the next
\* message, as after a save that succeeds; the file is left as it was or,
\* when the write failed after the truncation, empty.
C10_SaveFailureNonFatal ==
    [][(proc = "running" /\ saves' = saves + 1 /\ ~last_save'.ok) =>
        /\ ipc' = IF batch_left = 0 THEN "pull" ELSE "batch"
        /\ ret' = NoRet
        /\ tx_alive' = tx_alive
        /\ batch_left' = batch_left
        /\ next_height' = next_height
        /\ queue' = queue
        /\ sent' = sent
        /\ file' \in {file, [exists |-> TRUE, text |-> << >>]}]_vars

\* after a save that failed, the loop is at the next block
C10_Witness ==
    /\ proc = "running"
    /\ ipc = "block"
    /\ tx_alive
    /\ saves > 0
    /\ begun = saves + 1
    /\ ~last_save.ok
    /\ last_save.h = block.h - 1

\* the loop of run_forever_simplified is running
Streaming == proc = "running" /\ ipc \in {"pull", "batch", "block"}

C12_ResultClassifies ==
    (proc = "running" /\ ipc = "done" /\ ret.why /= "setup") =>
        /\ \/ /\ ret.kind = "Ok"
              /\ ret.why \in {"end", "receiver_dropped"}
              /\ ret.msg = << >>
           \/ /\ ret.kind = "Err"
              /\ ret.why \in {"invalidate", "stream"}
              /\ ret.msg /= << >>
        /\ ret.why = "receiver_dropped" <=> saves < begun
        /\ ret.why = "receiver_dropped" => ~rx_alive

\* the loop has processed a block and then returned the read error it pulled
C12_Witness ==
    /\ proc = "running"
    /\ ipc = "done"
    /\ ret.kind = "Err"
    /\ ret.why = "stream"
    /\ begun > 0
    /\ saves = begun

C14_ConnectFailureIsError ==
    (proc = "running" /\ IndexerCompleted
        /\ ret.why \notin {"end", "receiver_dropped", "invalidate", "stream"})
        => (ipc = "done" /\ ret.kind = "Err")

\* the loop has reached the end of a block and is about to save
SaveReady == proc = "running" /\ ipc = "block" /\ evi > Len(block.events)

\* C15: save_block_state is a full overwrite and is idempotent.  A save of
\* n that succeeds leaves exactly n in the file whatever the file held
\* (nothing, an empty text, another number); when the file already held n
\* it is left as it was; and what the file holds never keeps a save from
\* succeeding.
C15_SaveOverwrites ==
    /\ [][(proc = "running" /\ saves' = saves + 1 /\ last_save'.ok) =>
            /\ file' = [exists |-> TRUE,
                        text |-> << "last_processed_block", last_save'.n >>]
            /\ (HasCheckpoint(file) /\ StoredCheckpoint(file) = last_save'.n)
                  => file' = file]_vars
    /\ [](SaveReady => ENABLED SaveBlock("ok"))

\* a save of n has succeeded and the loop is about to save the same n again
C15_Witness ==
    /\ SaveReady
    /\ saves > 0
    /\ last_save.ok
    /\ HasCheckpoint(file)
    /\ StoredCheckpoint(file) = last_save.n
    /\ last_save.n = IF block.header THEN block.h ELSE 0

\* C16 as stated: load_block_state follows the last save that succeeded.
\* After a save that succeeds with n it returns Some(n), and after a save
\* that fails it returns what it returned before.
C16_LoadFollowsLastSuccess ==
    [][(proc = "running" /\ saves' = saves + 1) =>
        load_block_state(file') =
            IF last_save'.ok
            THEN [ok |-> TRUE, some |-> TRUE, val |-> last_save'.n]
            ELSE load_block_state(file)]_vars

\* C16: load_block_state follows what the file holds.  It returns
\* Ok(None) exactly when the file does not exist, Ok(Some(n)) exactly when
\* the file holds what a save of n wrote (so right after a save of n that
\* succeeded), and an error exactly when the file exists and holds anything
\* else, such as the empty text a failed write leaves.
C16_LoadFollowsFile ==
    LET loaded == load_block_state(file)
    IN  /\ ~file.exists <=> loaded = [ok |-> TRUE, some |-> FALSE, val |-> 0]
        /\ \A n \in 0..MaxHeight :
              file = [exists |-> TRUE, text |-> << "last_processed_block", n >>]
                  <=> loaded = [ok |-> TRUE, some |-> TRUE, val |-> n]
        /\ ~loaded.ok <=>
              /\ file.exists
              /\ \A n \in 0..MaxHeight :
                    file.text /= << "last_processed_block", n >>
        /\ (proc = "running" /\ saves > 0 /\ last_save.ok)
              => loaded = [ok |-> TRUE, some |-> TRUE, val |-> last_save.n]

\* a process has started on the empty file a failed write left: the load
\* returned an error
C16_Witness ==
    /\ Constructed
    /\ file = [exists |-> TRUE, text |-> << >>]
    /\ ~load_block_state(file).ok


\* C17: the checkpoint is read and written at the location the
\* configuration gives: whatever write_path the service was constructed
\* with, the path load and save open is that write_path.
C17_ConfiguredLocation ==
    Constructed => get_state_file_path = config_write_path


\* two results a caller cannot tell apart: both errors, or the same value
SameResult(r1, r2) ==
    /\ r1.kind = r2.kind
    /\ r1.kind = "Ok" => r1.val = r2.val

\* C18: on both backends, once store(k, v) has been called, retrieve(k)
\* of v's type returns Some of a value equal to v, and the store left
\* the rows of all other keys as they were.
C18_RoundTrip ==
    [][op'.name = "store" =>
          \A m \in Managers :
              /\ StorageManager_retrieve(m, storage'[m], op'.key, op'.val.t)
                     = StoreOk(op'.val)
              /\ \A key \in Keys \ {op'.key} :
                     storage'[m][key] = storage[m][key]]_vars

\* C19: on both backends delete(k) returns true exactly when k had a row
\* before the call; after it retrieve(k) returns None whatever the type
\* asked for and a second delete(k) returns false; the rows of the other
\* keys are untouched, and the whole table is when k had no row.
C19_DeleteReportsExistence ==
    [][op'.name = "delete" =>
          \A m \in Managers :
              /\ returned'[m] = StoreOk(Bool(storage[m][op'.key].has))
              /\ \A T \in Types :
                     StorageManager_retrieve(m, storage'[m], op'.key, T)
                         = StoreOk(None)
              /\ StorageManager_delete(m, storage'[m], op'.key).r
                     = StoreOk(Bool(FALSE))
              /\ \A key \in Keys \ {op'.key} :
                     storage'[m][key] = storage[m][key]
              /\ ~storage[m][op'.key].has => storage'[m] = storage[m]]_vars

\* a delete has just removed a key that both backends held, next to a key
\* that stays
C19_Witness ==
    /\ op.name = "delete"
    /\ \A m \in Managers :
           /\ returned[m] = StoreOk(Bool(TRUE))
           /\ ~storage[m][op.key].has
           /\ \E key \in Keys \ {op.key} : storage[m][key].has

\* C20: whatever calls were made on both stores from the empty state,
\* the last call returned the same result on the relational backend as on
\* the key-value backend.
C20_BackendsAgree ==
    \A m1 \in Managers : \A m2 \in Managers :
        SameResult(returned[m1], returned[m2])


\* C21: from the moment the loop reaches a block until the last event
\* slot of it is done, the checkpoint file is not written.  When tx.send
\* refuses an event of block N the loop returns Ok(()) at once: no
\* save_block_state is called for N, the rest of the batch is dropped, and
\* the file stays as it was for as long as the process lives.  A
\* checkpoint is only ever written for a block whose present events were
\* all accepted.  The checkpoint left behind is below N, or it is N itself
\* and N is the first block of a stream that was resumed from it: a
\* restart that resumes from it the same way reaches N again.
C21_NoCheckpointOnDisconnect ==
    [][proc = "running" =>
        /\ (ipc = "batch" \/ EventPending) => file' = file
        /\ (EventPending /\ ipc' = "done") =>
              /\ ~rx_alive
              /\ ret' = Ok("receiver_dropped")
              /\ saves' = saves
              /\ saves = begun - 1
              /\ batch_left' = 0
              /\ HasCheckpoint(file') =>
                    \/ StoredCheckpoint(file') < block.h
                    \/ StoredCheckpoint(file') = block.h /\ begun = 1
        /\ saves' = saves + 1 => sent = arrived
        /\ ipc = "done" => file' = file]_vars

\* the first block of the process was checkpointed, the consumer was
\* gone when an event of the second block was sent: the loop has returned
\* and the file still holds the first block's checkpoint
C21_Witness ==
    /\ proc = "running"
    /\ ipc = "done"
    /\ ret = Ok("receiver_dropped")
    /\ begun = 2
    /\ saves = 1
    /\ last_save.ok
    /\ HasCheckpoint(file)
    /\ StoredCheckpoint(file) = last_save.n
    /\ Len(arrived) > Len(sent)


\* C22: the consumer task returns only when the channel is empty and its
\* sender dropped, that is when the indexer task, which owns the sender,
\* has finished; by then it has processed everything that was queued.
\* While the loop is streaming the receiver is alive, unless the consumer
\* task panicked.
C22_ConsumerOutlivesLoop ==
    /\ [][(proc = "running" /\ cpc = "recv" /\ cpc' = "done") =>
            /\ queue = << >>
            /\ ~tx_alive
            /\ IndexerCompleted
            /\ received = sent]_vars
    /\ []((proc = "running" /\ cpc = "done") =>
            /\ IndexerCompleted
            /\ ~tx_alive
            /\ queue = << >>)
    /\ []((Streaming /\ ~rx_alive) => cpc = "panicked")
    /\ []((proc = "running" /\ tx_alive) => cpc /= "done")

\* the loop returned after queueing events, the consumer processed them
\* all and then returned
C22_Witness ==
    /\ proc = "running"
    /\ ipc = "done"
    /\ cpc = "done"
    /\ ~rx_alive
    /\ Len(sent) > 0
    /\ received = sent


\* C23: a checkpoint file that exists and cannot be decoded does not stop
\* the start: IndexerService::new returns a service for every configured
\* starting block, and the stream_config it built starts at the
\* configured starting block, as it does when there is no file.
C23_LoadFailureFallsBack ==
    /\ (proc = "running" /\ ipc = "new") =>
           \A default \in 0..MaxDefault :
               ENABLED New(default, config_write_path)
    /\ (Constructed /\ ~load_block_state(file).ok) =>
           /\ starting_block = config_starting_block
           /\ starting_block =
                  NewStartingBlock(config_starting_block,
                                   load_block_state(AbsentFile))

\* a failed write left the file empty; the process was started again with
\* the starting block 1 configured and the service starts there
C23_Witness ==
    /\ Constructed
    /\ file.exists
    /\ ~load_block_state(file).ok
    /\ config_starting_block = 1
    /\ starting_block = 1


\* C24: a block that comes without header is handled as block 0: when
\* its event slots are done every present event of it has been queued,
\* save_block_state is called with 0, and a write that succeeds leaves the
\* checkpoint 0 in the file whatever the file held before.
C24_HeaderlessIsBlockZero ==
    /\ [][(proc = "running" /\ saves' = saves + 1 /\ ~block.header) =>
            /\ SeqRange(PresentEvents(block)) \subseteq SeqRange(sent)
            /\ last_save'.n = 0
            /\ last_save'.ok =>
                  file' = [exists |-> TRUE,
                           text |-> << "last_processed_block", 0 >>]]_vars
    /\ []((SaveReady /\ ~block.header) => ENABLED SaveBlock("ok"))

\* the second block of the stream, at height 2, came without header and
\* with an event: the event was queued and the file holds the checkpoint 0
C24_Witness ==
    /\ proc = "running"
    /\ begun = 2
    /\ saves = 2
    /\ ~last_save.header
    /\ last_save.h = 2
    /\ last_save.ok
    /\ HasCheckpoint(file)
    /\ StoredCheckpoint(file) = 0
    /\ << 2, 1 >> \in SeqRange(sent)

====
